---- MODULE Spec2Model ----
(***************************************************************************)
(* Banking / Customer Deposits Tracker (src/money_mangement.py).           *)
(*                                                                         *)
(* The module models                                                       *)
(*   - the helpers _empty_frames, _load_workbook, _sanitize_types,         *)
(*     _recompute_from_main and _to_excel_bytes as operators on tables,    *)
(*   - the Streamlit session: one action per user event, each running the  *)
(*     whole script top to bottom against st.session_state (Spec),         *)
(*   - the engine pipeline load -> recompute -> recompute again ->         *)
(*     export -> import applied to workbooks drawn from a bounded set      *)
(*     (SpecEngine).                                                       *)
(*                                                                         *)
(* A table (pandas DataFrame) is [cols |-> <<column names>>,               *)
(* rows |-> <<row>>], a row a function from the column names to cells.     *)
(* Amounts are integers (units of the smallest amount entered); a          *)
(* percentage paid/total*100 is kept as the exact pair (paid, total).      *)
(***************************************************************************)
EXTENDS Integers, Sequences, FiniteSets, TLC

VARIABLES
    \* ---- the Streamlit session (Spec)
    uploaded,        \* the file held by st.file_uploader (NoFile: none)
    has_frames,      \* 'frames' in st.session_state
    session_frames,  \* st.session_state.frames
    expense,         \* the "Expense" number_input: [default, value]
    other_expense,   \* the "Other Expense" number_input: [default, value]
    form,            \* the entry form as submitted in the last script run
    message,         \* st.error / st.success shown by the last script run
    phase,           \* "start" | "ok" | "rerun" | "exception"
    \* ---- the engine pipeline (SpecEngine)
    pc,              \* "input" | "loaded" | "recomputed" | "again" | "exported" | "imported"
    in_file,         \* the workbook handed to _load_workbook
    in_expense,      \* expense handed to _recompute_from_main
    in_other,        \* other_expense handed to _recompute_from_main
    out_frames,      \* _load_workbook(in_file)
    out_bundle,      \* _recompute_from_main(out_frames[MAIN_SHEET], ...)
    out_again,       \* _recompute_from_main(out_bundle[MAIN_SHEET], ...)
    out_bytes,       \* _to_excel_bytes(out_bundle)
    out_back         \* _load_workbook(out_bytes)

session_vars == <<uploaded, has_frames, session_frames, expense, other_expense,
                  form, message, phase>>
engine_vars == <<pc, in_file, in_expense, in_other, out_frames, out_bundle,
                 out_again, out_bytes, out_back>>
vars == <<uploaded, has_frames, session_frames, expense, other_expense,
          form, message, phase, pc, in_file, in_expense, in_other, out_frames,
          out_bundle, out_again, out_bytes, out_back>>

(***************************************************************************)
(* Bounds                                                                  *)
(***************************************************************************)
\* rows of a ledger sheet in a workbook drawn by SpecEngine
MaxRows == 2
\* rows the session ledger may grow to by add-transaction submissions
MaxLedger == 2

(***************************************************************************)
(* Cells                                                                   *)
(***************************************************************************)
\* k: "na" (NaN / None / NaT), "num", "str", "date" (datetime.date),
\*    "ts" (Timestamp, an Excel date cell), "pct" (n / d * 100)
Cell(k, n, d, s) == [k |-> k, n |-> n, d |-> d, s |-> s]
NA == Cell("na", 0, 1, "")
Num(n) == Cell("num", n, 1, "")
Str(s) == Cell("str", 0, 1, s)
Date(day) == Cell("date", day, 1, "")
TS(day) == Cell("ts", day, 1, "")
Pct(n, d) == Cell("pct", n, d, "")

Range(seq) == {seq[i] : i \in 1..Len(seq)}

MAIN_SHEET == "Main Data"
CUSTOMER_SHEET == "Customer Summary"
PURCHASE_SHEET == "Purchase Summary"
DAILY_SHEET == "Daily Summary"
SheetNames == <<MAIN_SHEET, CUSTOMER_SHEET, PURCHASE_SHEET, DAILY_SHEET>>

MainCols == <<"Date", "Customer", "Deposit Amount", "Rate", "Total Amount",
              "Amount Paid", "Outstanding", "Status">>
CustomerCols == <<"Customer", "Total Deposit", "Total Paid", "Outstanding", "Status">>
MetricCols == <<"Metric", "Value">>
NumericCols == <<"Deposit Amount", "Rate", "Total Amount", "Amount Paid", "Outstanding">>

Table(cols, rows) == [cols |-> cols, rows |-> rows]

\* DataFrame.empty: some axis has length 0
IsEmpty(df) == Len(df.rows) = 0 \/ Len(df.cols) = 0

Frames(main, customer, purchase, daily) ==
    (MAIN_SHEET :> main) @@ (CUSTOMER_SHEET :> customer)
        @@ (PURCHASE_SHEET :> purchase) @@ (DAILY_SHEET :> daily)

\* _empty_frames
EmptyFrames ==
    Frames(Table(MainCols, <<>>), Table(CustomerCols, <<>>),
           Table(MetricCols, <<>>), Table(MetricCols, <<>>))

(***************************************************************************)
(* _load_workbook.  A file is [readable, book]: book maps the sheet names  *)
(* the workbook holds to their tables; pd.read_excel raises on a file that *)
(* is not readable, and the except branch returns _empty_frames().         *)
(***************************************************************************)
File(readable, book) == [readable |-> readable, book |-> book]

\* a plausible slip: an absent sheet becomes pd.DataFrame(), without its columns
LoadSheetNoSchema(file, sheet) ==
    IF sheet \in DOMAIN file.book THEN file.book[sheet] ELSE Table(<<>>, <<>>)

LoadSheet(file, sheet) ==
    IF sheet \in DOMAIN file.book THEN file.book[sheet] ELSE EmptyFrames[sheet]

LoadWorkbook(file) ==
    IF file.readable
    THEN [sheet \in Range(SheetNames) |-> LoadSheet(file, sheet)]
    ELSE EmptyFrames

(***************************************************************************)
(* _sanitize_types                                                         *)
(***************************************************************************)
\* the date strings pd.to_datetime parses, with the day each denotes
DateStrings == {"2024-01-02"}
DayOf(s) == IF s = "2024-01-02" THEN 2 ELSE 0

\* a plausible slip: parsing with a string format, which turns a value that is
\* already a datetime.date into NaT
ToDateStringsOnly(c) ==
    CASE c.k = "ts" -> Date(c.n)
      [] c.k = "str" /\ c.s \in DateStrings -> Date(DayOf(c.s))
      [] OTHER -> NA

\* pd.to_datetime(x, errors='coerce').dt.date of one cell: a date, a
\* Timestamp or a parsable string gives the date, a number counts from the
\* epoch, anything else is NaT
ToDate(c) ==
    CASE c.k = "date" -> Date(c.n)
      [] c.k = "ts" -> Date(c.n)
      [] c.k = "str" /\ c.s \in DateStrings -> Date(DayOf(c.s))
      [] c.k = "num" -> Date(0)
      [] OTHER -> NA

\* the strings pd.to_numeric parses, with their values
NumberStrings == {"2"}
ValueOf(s) == IF s = "2" THEN 2 ELSE 0

\* pd.to_numeric(x, errors='coerce').fillna(0.0) of one cell
ToNumeric(c) ==
    CASE c.k = "num" -> Num(c.n)
      [] c.k = "str" /\ c.s \in NumberStrings -> Num(ValueOf(c.s))
      [] OTHER -> Num(0)

\* lambda x: 'Paid' if x <= 0 else 'Not Paid'
StatusOf(x) == IF x <= 0 THEN Str("Paid") ELSE Str("Not Paid")

\* a plausible slip: the status is only filled in where the input has none
NewStatusKeepInput(old, x) == IF old.k = "na" THEN StatusOf(x) ELSE old

\* df['Status'] = df['Outstanding'].apply(...): the column is assigned whole,
\* whatever status (old) the input row carried
NewStatus(old, x) == StatusOf(x)

CellOr(row, c) == IF c \in DOMAIN row THEN row[c] ELSE NA

SanitizeRow(row, cols) ==
    [c \in Range(cols) |->
        IF c = "Date" THEN ToDate(row[c])
        ELSE IF c \in Range(NumericCols) THEN ToNumeric(row[c])
        ELSE IF c = "Status" /\ "Outstanding" \in DOMAIN row
             THEN NewStatus(CellOr(row, "Status"), ToNumeric(row["Outstanding"]).n)
        ELSE row[c]]

SanitizeTypes(df) ==
    IF IsEmpty(df) THEN df
    ELSE LET cols == IF "Outstanding" \in Range(df.cols) /\ "Status" \notin Range(df.cols)
                     THEN Append(df.cols, "Status")
                     ELSE df.cols
         IN Table(cols, [i \in 1..Len(df.rows) |-> SanitizeRow(df.rows[i], cols)])

(***************************************************************************)
(* _recompute_from_main                                                    *)
(***************************************************************************)
RECURSIVE SumSeq(_)
SumSeq(ns) == IF Len(ns) = 0 THEN 0 ELSE Head(ns) + SumSeq(Tail(ns))

\* df[col].sum() over rows whose column holds numbers
SumCol(rows, col) == SumSeq([i \in 1..Len(rows) |-> rows[i][col].n])

\* the customer names of the model in Python's string order
CustomerOrder == <<"", "  ", " Bob ", "Alice", "Bob">>

HasKey(rows, key) == \E i \in 1..Len(rows) : rows[i]["Customer"] = key

StrKeys(rows) ==
    LET present(s) == HasKey(rows, Str(s))
        names == SelectSeq(CustomerOrder, present)
    IN [i \in 1..Len(names) |-> Str(names[i])]

\* a plausible slip: groupby's default dropna=True, which discards the rows
\* whose customer is missing
GroupKeysDropNa(rows) == StrKeys(rows)

\* the keys of main.groupby('Customer', dropna=False): sorted, the missing
\* customer last
GroupKeys(rows) ==
    StrKeys(rows) \o (IF HasKey(rows, NA) THEN <<NA>> ELSE <<>>)

GroupRows(rows, key) == SelectSeq(rows, LAMBDA r : r["Customer"] = key)

\* one row of grp after rename, Status and the column selection
CustomerRow(rows, key) ==
    LET g == GroupRows(rows, key)
    IN ("Customer" :> key)
        @@ ("Total Deposit" :> Num(SumCol(g, "Deposit Amount")))
        @@ ("Total Paid" :> Num(SumCol(g, "Amount Paid")))
        @@ ("Outstanding" :> Num(SumCol(g, "Outstanding")))
        @@ ("Status" :> StatusOf(SumCol(g, "Outstanding")))

CustomerSummary(rows) ==
    LET keys == GroupKeys(rows)
    IN Table(CustomerCols, [i \in 1..Len(keys) |-> CustomerRow(rows, keys[i])])

\* (x / total_amount_sum * 100) if total_amount_sum else 0.0
Share(x, total_amount_sum) ==
    IF total_amount_sum # 0 THEN Pct(x, total_amount_sum) ELSE Num(0)

Metric(name, value) == ("Metric" :> Str(name)) @@ ("Value" :> value)

\* the Greek capital sigma of the first label is written "Sum"
PurchaseSummary(total_amount_sum, paid_total, outstanding_total) ==
    Table(MetricCols, <<
        Metric("Total Amount (Sum deposit*rate)", Num(total_amount_sum)),
        Metric("Total Paid", Num(paid_total)),
        Metric("Total Outstanding", Num(outstanding_total)),
        Metric("Paid Share (%)", Share(paid_total, total_amount_sum)),
        Metric("Outstanding Share (%)", Share(outstanding_total, total_amount_sum)) >>)

\* a plausible slip: the expenses added instead of subtracted
ProfitAddsExpenses(total_amount_sum, paid_total, e, oe) ==
    total_amount_sum - paid_total + e + oe

Profit(total_amount_sum, paid_total, e, oe) ==
    total_amount_sum - paid_total - e - oe

DailySummary(total_amount_sum, paid_total, e, oe) ==
    Table(MetricCols, <<
        Metric("Expense", Num(e)),
        Metric("Other Expense", Num(oe)),
        Metric("Sum of Total Amount", Num(total_amount_sum)),
        Metric("Total Paid", Num(paid_total)),
        Metric("Profit", Num(Profit(total_amount_sum, paid_total, e, oe))) >>)

\* the result of a helper that may raise: err is "" or the exception
Result(err, frames) == [err |-> err, frames |-> frames]
Raised(err) == Result(err, EmptyFrames)

\* the columns groupby('Customer').agg({...}) looks up: KeyError without one
GroupByCols == {"Customer", "Deposit Amount", "Amount Paid", "Outstanding", "Total Amount"}

RecomputeFromMain(main_df, e, oe) ==
    LET main == SanitizeTypes(main_df)
    IN IF IsEmpty(main)
       THEN Result("", Frames(main, Table(CustomerCols, <<>>),
                              PurchaseSummary(0, 0, 0), DailySummary(0, 0, e, oe)))
       ELSE IF ~(GroupByCols \subseteq Range(main.cols))
       THEN Raised("KeyError")
       ELSE LET paid_total == SumCol(main.rows, "Amount Paid")
                outstanding_total == SumCol(main.rows, "Outstanding")
                total_amount_sum == SumCol(main.rows, "Total Amount")
            IN Result("", Frames(main, CustomerSummary(main.rows),
                                 PurchaseSummary(total_amount_sum, paid_total, outstanding_total),
                                 DailySummary(total_amount_sum, paid_total, e, oe)))

(***************************************************************************)
(* _to_excel_bytes, and what pd.read_excel gives back                      *)
(***************************************************************************)
\* a cell as the workbook stores it: a datetime.date becomes an Excel date
\* cell, which reads back as a Timestamp; NaN / NaT is an empty cell
ExcelCell(c) == IF c.k = "date" THEN TS(c.n) ELSE c

ExcelSheet(df) ==
    Table(df.cols, [i \in 1..Len(df.rows) |->
                       [c \in Range(df.cols) |-> ExcelCell(df.rows[i][c])]])

\* df[[...the eight ledger columns...]]
SelectMainCols(df) ==
    Table(MainCols, [i \in 1..Len(df.rows) |->
                        [c \in Range(MainCols) |-> df.rows[i][c]]])

\* KeyError when a non-empty ledger lacks one of the eight columns
ToExcelBytes(frames) ==
    LET main == frames[MAIN_SHEET]
    IN IF ~IsEmpty(main) /\ ~(Range(MainCols) \subseteq Range(main.cols))
       THEN [err |-> "KeyError", file |-> File(FALSE, <<>>)]
       ELSE [err |-> "",
             file |-> File(TRUE,
                 [sheet \in Range(SheetNames) |->
                     IF sheet = MAIN_SHEET /\ ~IsEmpty(main)
                     THEN ExcelSheet(SelectMainCols(main))
                     ELSE ExcelSheet(frames[sheet])])]

(***************************************************************************)
(* The script, top to bottom (lines 155-291), as one run against the       *)
(* session.  The password gate (lines 21-35) is taken as passed.           *)
(***************************************************************************)
NoFile == [present |-> FALSE, file |-> File(FALSE, <<>>)]
Uploaded(file) == [present |-> TRUE, file |-> file]

NoForm == [submitted |-> FALSE, customer |-> "", deposit |-> 0, rate |-> 0, amount_paid |-> 0]
Submitted(customer, deposit, rate, amount_paid) ==
    [submitted |-> TRUE, customer |-> customer, deposit |-> deposit, rate |-> rate,
     amount_paid |-> amount_paid]

\* str.strip() on the customer names of the model
Strip(s) ==
    CASE s = "  " -> ""
      [] s = " Bob " -> "Bob"
      [] OTHER -> s

\* a plausible slip: only the empty string is refused, not the blank one
IsBlankNoStrip(customer) == customer = ""

\* not customer or customer.strip() == ""
IsBlank(customer) == customer = "" \/ Strip(customer) = ""

\* date.today(), the default of the date input
EntryDates == {1}

\* the new_row of the submit handler
NewRow(entry_date, customer, deposit, rate, amount_paid) ==
    LET total_amount == deposit * rate
    IN ("Date" :> Date(entry_date))
        @@ ("Customer" :> Str(Strip(customer)))
        @@ ("Deposit Amount" :> Num(deposit))
        @@ ("Rate" :> Num(rate))
        @@ ("Total Amount" :> Num(total_amount))
        @@ ("Amount Paid" :> Num(amount_paid))
        @@ ("Outstanding" :> Num(total_amount - amount_paid))
        @@ ("Status" :> StatusOf(total_amount - amount_paid))

\* pd.concat([main_df, new_row], ignore_index=True): the union of the columns
\* in order of appearance, NaN where a row has no such column
Concat(main_df, new_row) ==
    LET more == SelectSeq(MainCols, LAMBDA c : c \notin Range(main_df.cols))
        cols == main_df.cols \o more
        fill(row) == [c \in Range(cols) |-> CellOr(row, c)]
    IN Table(cols, [i \in 1..Len(main_df.rows) |-> fill(main_df.rows[i])]
                       \o <<fill(new_row)>>)

\* lines 159-172: frames of this run, and what the session then holds
SessionAfterLoad(upl, has, sess) ==
    LET frames == IF upl.present THEN LoadWorkbook(upl.file) ELSE EmptyFrames
    IN IF ~has THEN frames
       ELSE IF upl.present THEN frames
       ELSE sess

HasMetric(daily, name) ==
    \E i \in 1..Len(daily.rows) : daily.rows[i]["Metric"] = Str(name)

\* the value= arguments of the two number inputs (lines 180-181); "KeyError"
\* when the Value column has no such index
ExpenseDefault(daily) ==
    IF ~IsEmpty(daily) /\ HasMetric(daily, "Expense") THEN daily.rows[1]["Value"].n ELSE 0

OtherExpenseDefault(daily) ==
    IF ~IsEmpty(daily) /\ HasMetric(daily, "Other Expense") /\ Len(daily.rows) >= 2
    THEN daily.rows[2]["Value"].n
    ELSE 0

OtherExpenseRaises(daily) ==
    ~IsEmpty(daily) /\ HasMetric(daily, "Other Expense") /\ Len(daily.rows) < 2

\* st.number_input without a key: the widget is identified by its arguments,
\* so a changed default makes a new widget holding the default; otherwise the
\* widget keeps the value the user gave it
NumberInput(widget, default) ==
    IF widget.default = default THEN widget
    ELSE [default |-> default, value |-> default]

\* what the submit handler leaves in st.session_state.frames (lines 231-248)
SubmitFrames(frames, main_df, sub, e, oe) ==
    IF ~sub.submitted \/ IsBlank(sub.customer) THEN Result("", frames)
    ELSE RecomputeFromMain(
             Concat(main_df, NewRow(CHOOSE d \in EntryDates : TRUE, sub.customer,
                                    sub.deposit, sub.rate, sub.amount_paid)), e, oe)

\* one run of the script with the uploader holding upl, the number inputs as
\* the user left them and the form as submitted (sub)
ScriptRun(upl, exp_widget, oth_widget, sub) ==
    LET frames == SessionAfterLoad(upl, has_frames, session_frames)
        main_df == SanitizeTypes(frames[MAIN_SHEET])
        exp == NumberInput(exp_widget, ExpenseDefault(frames[DAILY_SHEET]))
        oth == NumberInput(oth_widget, OtherExpenseDefault(frames[DAILY_SHEET]))
        recomputed == RecomputeFromMain(main_df, exp.value, oth.value)
        export_bytes == ToExcelBytes(recomputed.frames)
        stored == SubmitFrames(frames, main_df, sub, exp.value, oth.value)
        raises == \/ OtherExpenseRaises(frames[DAILY_SHEET])
                  \/ recomputed.err # ""
                  \/ export_bytes.err # ""
                  \/ stored.err # ""
    IN /\ uploaded' = upl
       /\ has_frames' = TRUE
       /\ expense' = exp
       /\ other_expense' = IF OtherExpenseRaises(frames[DAILY_SHEET]) THEN oth_widget ELSE oth
       /\ IF raises
          THEN /\ session_frames' = frames
               /\ form' = NoForm
               /\ message' = ""
               /\ phase' = "exception"
          ELSE /\ session_frames' = stored.frames
               /\ form' = sub
               /\ message' = IF ~sub.submitted THEN ""
                             ELSE IF IsBlank(sub.customer) THEN "Please enter a customer name."
                             ELSE "Entry added and summaries updated."
               /\ phase' = IF sub.submitted /\ ~IsBlank(sub.customer) THEN "rerun" ELSE "ok"
       /\ UNCHANGED engine_vars

(***************************************************************************)
(* The user's events.  Every event makes Streamlit run the script once.    *)
(***************************************************************************)
AliceRow == NewRow(1, "Alice", 1, 2, 0)

\* a workbook as the download button saved it, with one entry and expense 1
FileSaved == ToExcelBytes(RecomputeFromMain(Table(MainCols, <<AliceRow>>), 1, 0).frames).file

\* a workbook holding only a hand-made ledger: text where an amount should
\* be, no Status column
FileLedgerOnly ==
    File(TRUE, (MAIN_SHEET :> Table(
        <<"Date", "Customer", "Deposit Amount", "Rate", "Total Amount",
          "Amount Paid", "Outstanding">>,
        << ("Date" :> Str("2024-01-02")) @@ ("Customer" :> Str("Bob"))
           @@ ("Deposit Amount" :> Str("2")) @@ ("Rate" :> Num(1))
           @@ ("Total Amount" :> Num(2)) @@ ("Amount Paid" :> NA)
           @@ ("Outstanding" :> Num(2)) >>)))

\* a workbook whose ledger has no Customer column
FileNoCustomer ==
    File(TRUE, (MAIN_SHEET :> Table(
        <<"Date", "Deposit Amount", "Rate", "Total Amount", "Amount Paid", "Outstanding">>,
        << ("Date" :> TS(1)) @@ ("Deposit Amount" :> Num(1)) @@ ("Rate" :> Num(1))
           @@ ("Total Amount" :> Num(1)) @@ ("Amount Paid" :> Num(0))
           @@ ("Outstanding" :> Num(1)) >>)))

\* not a workbook at all
FileGarbage == File(FALSE, <<>>)

UploadFiles == {FileSaved, FileLedgerOnly, FileNoCustomer, FileGarbage}
ExpenseValues == {0, 1}
CustomerInputs == {"", "  ", "Alice", " Bob "}
DepositInputs == {1}
RateInputs == {2}
PaidInputs == {0, 3}

\* existing_customers of the select box (line 206)
ExistingCustomers(main_df) ==
    IF IsEmpty(main_df) THEN {}
    ELSE {main_df.rows[i]["Customer"].s : i \in {j \in 1..Len(main_df.rows) :
                                                  main_df.rows[j]["Customer"].k = "str"}}

\* the ledger as the script reads it (line 173)
main_df_now == SanitizeTypes(session_frames[MAIN_SHEET])

WidgetsShown == phase \in {"ok", "exception"}

FirstRun ==
    /\ phase = "start"
    /\ ScriptRun(NoFile, expense, other_expense, NoForm)

Upload ==
    /\ WidgetsShown
    /\ \E f \in UploadFiles : ScriptRun(Uploaded(f), expense, other_expense, NoForm)

ClearUpload ==
    /\ WidgetsShown
    /\ uploaded.present
    /\ ScriptRun(NoFile, expense, other_expense, NoForm)

SetExpense ==
    /\ WidgetsShown
    /\ \E v \in ExpenseValues \ {expense.value} :
          ScriptRun(uploaded, [expense EXCEPT !.value = v], other_expense, NoForm)

SetOtherExpense ==
    /\ WidgetsShown
    /\ \E v \in ExpenseValues \ {other_expense.value} :
          ScriptRun(uploaded, expense, [other_expense EXCEPT !.value = v], NoForm)

\* "Add Entry": the form is on the page only when the last run reached it
Submit ==
    /\ phase = "ok"
    /\ Len(main_df_now.rows) < MaxLedger
    /\ \E customer \in CustomerInputs \cup ExistingCustomers(main_df_now),
          deposit \in DepositInputs, rate \in RateInputs, amount_paid \in PaidInputs :
          ScriptRun(uploaded, expense, other_expense,
                    Submitted(customer, deposit, rate, amount_paid))

\* st.experimental_rerun() (line 248): the script runs again at once
Rerun ==
    /\ phase = "rerun"
    /\ ScriptRun(uploaded, expense, other_expense, NoForm)

SessionInit ==
    /\ uploaded = NoFile
    /\ has_frames = FALSE
    /\ session_frames = EmptyFrames
    /\ expense = [default |-> 0, value |-> 0]
    /\ other_expense = [default |-> 0, value |-> 0]
    /\ form = NoForm
    /\ message = ""
    /\ phase = "start"

EngineIdle ==
    /\ pc = "idle"
    /\ in_file = FileGarbage
    /\ in_expense = 0
    /\ in_other = 0
    /\ out_frames = EmptyFrames
    /\ out_bundle = Raised("")
    /\ out_again = Raised("")
    /\ out_bytes = [err |-> "", file |-> FileGarbage]
    /\ out_back = EmptyFrames

Init == SessionInit /\ EngineIdle

Next ==
    \/ FirstRun
    \/ Upload
    \/ ClearUpload
    \/ SetExpense
    \/ SetOtherExpense
    \/ Submit
    \/ Rerun

Spec == Init /\ [][Next]_vars

(***************************************************************************)
(* The engine pipeline on workbooks drawn from a bounded set.              *)
(***************************************************************************)
\* the amounts, status and date of a ledger row as a workbook may hold them:
\* an unpaid row marked Paid, an overpaid row marked Not Paid with its date
\* as text, and a row of text and empty cells
RowShapes == {
    [deposit |-> Num(1), rate |-> Num(1), total |-> Num(1), paid |-> Num(0),
     outstanding |-> Num(1), status |-> Str("Paid"), date |-> TS(1)],
    [deposit |-> Num(2), rate |-> Num(1), total |-> Num(2), paid |-> Num(3),
     outstanding |-> Num(0 - 1), status |-> Str("Not Paid"), date |-> Str("2024-01-02")],
    [deposit |-> Str("abc"), rate |-> NA, total |-> Str("2"), paid |-> NA,
     outstanding |-> Str("abc"), status |-> NA, date |-> Str("bad")] }

RowCustomers == {Str("Alice"), Str("Bob"), NA}

RawRow(customer, shape) ==
    ("Date" :> shape.date) @@ ("Customer" :> customer)
        @@ ("Deposit Amount" :> shape.deposit) @@ ("Rate" :> shape.rate)
        @@ ("Total Amount" :> shape.total) @@ ("Amount Paid" :> shape.paid)
        @@ ("Outstanding" :> shape.outstanding) @@ ("Status" :> shape.status)

RawRows == {RawRow(c, sh) : c \in RowCustomers, sh \in RowShapes}

RowSeqs == UNION {[1..n -> RawRows] : n \in 0..MaxRows}

Without(col) == SelectSeq(MainCols, LAMBDA c : c # col)

\* the column layouts of a ledger sheet: the eight columns, one of them
\* absent, a ninth column, another order
Layouts == {
    MainCols, Without("Status"), Without("Customer"), Without("Outstanding"),
    Without("Total Amount"), Without("Rate"), Append(MainCols, "Notes"),
    <<"Customer">> \o Without("Customer") }

Laid(rows, cols) ==
    Table(cols, [i \in 1..Len(rows) |->
                    [c \in Range(cols) |->
                        IF c \in DOMAIN rows[i] THEN rows[i][c] ELSE Str("memo")]])

LedgerSheets == {Laid(rows, cols) : rows \in RowSeqs, cols \in Layouts}
                    \cup {Table(<<>>, <<>>)}

\* workbooks holding a ledger sheet only
LedgerFiles == {File(TRUE, (MAIN_SHEET :> sheet)) : sheet \in LedgerSheets}

\* workbooks holding any of the four sheets, and a fifth
SavedBook == FileSaved.book @@ ("Notes" :> Table(<<"Note">>, <<>>))
SheetFiles == {File(TRUE, [n \in names |-> SavedBook[n]]) : names \in SUBSET DOMAIN SavedBook}

EngineFiles == LedgerFiles \cup SheetFiles \cup {FileGarbage}

EngineExpenses == {<<0, 0>>, <<1, 2>>}

EngineInit ==
    /\ SessionInit
    /\ pc = "input"
    /\ in_file \in EngineFiles
    /\ \E x \in EngineExpenses : in_expense = x[1] /\ in_other = x[2]
    /\ out_frames = EmptyFrames
    /\ out_bundle = Raised("")
    /\ out_again = Raised("")
    /\ out_bytes = [err |-> "", file |-> FileGarbage]
    /\ out_back = EmptyFrames

Load ==
    /\ pc = "input"
    /\ out_frames' = LoadWorkbook(in_file)
    /\ pc' = "loaded"
    /\ UNCHANGED <<in_file, in_expense, in_other, out_bundle, out_again, out_bytes, out_back>>
    /\ UNCHANGED session_vars

Recompute ==
    /\ pc = "loaded"
    /\ out_bundle' = RecomputeFromMain(out_frames[MAIN_SHEET], in_expense, in_other)
    /\ pc' = "recomputed"
    /\ UNCHANGED <<in_file, in_expense, in_other, out_frames, out_again, out_bytes, out_back>>
    /\ UNCHANGED session_vars

RecomputeAgain ==
    /\ pc = "recomputed"
    /\ out_bundle.err = ""
    /\ out_again' = RecomputeFromMain(out_bundle.frames[MAIN_SHEET], in_expense, in_other)
    /\ pc' = "again"
    /\ UNCHANGED <<in_file, in_expense, in_other, out_frames, out_bundle, out_bytes, out_back>>
    /\ UNCHANGED session_vars

Export ==
    /\ pc = "again"
    /\ out_bytes' = ToExcelBytes(out_bundle.frames)
    /\ pc' = "exported"
    /\ UNCHANGED <<in_file, in_expense, in_other, out_frames, out_bundle, out_again, out_back>>
    /\ UNCHANGED session_vars

Import ==
    /\ pc = "exported"
    /\ out_bytes.err = ""
    /\ out_back' = LoadWorkbook(out_bytes.file)
    /\ pc' = "imported"
    /\ UNCHANGED <<in_file, in_expense, in_other, out_frames, out_bundle, out_again, out_bytes>>
    /\ UNCHANGED session_vars

EngineNext ==
    \/ Load
    \/ Recompute
    \/ RecomputeAgain
    \/ Export
    \/ Import

SpecEngine == EngineInit /\ [][EngineNext]_vars

(***************************************************************************)
(* Properties                                                              *)
(***************************************************************************)
Recomputed == pc \in {"recomputed", "again", "exported", "imported"}
Returned == Recomputed /\ out_bundle.err = ""
LedgerOut == out_bundle.frames[MAIN_SHEET]
CustomerOut == out_bundle.frames[CUSTOMER_SHEET]
PurchaseOut == out_bundle.frames[PURCHASE_SHEET]
DailyOut == out_bundle.frames[DAILY_SHEET]

\* C1: for a non-empty ledger the customer summary that recompute returns
\* reconciles with the normalised ledger: the summary's Total Deposit, Total
\* Paid and Outstanding columns sum to the ledger's Deposit Amount, Amount
\* Paid and Outstanding columns, and rows without a customer have a summary
\* row of their own.
C1_SumsReconcile ==
    (Returned /\ ~IsEmpty(LedgerOut)) =>
        /\ SumCol(CustomerOut.rows, "Total Deposit") = SumCol(LedgerOut.rows, "Deposit Amount")
        /\ SumCol(CustomerOut.rows, "Total Paid") = SumCol(LedgerOut.rows, "Amount Paid")
        /\ SumCol(CustomerOut.rows, "Outstanding") = SumCol(LedgerOut.rows, "Outstanding")
        /\ HasKey(LedgerOut.rows, NA) => HasKey(CustomerOut.rows, NA)

C1_Witness ==
    /\ pc = "recomputed"
    /\ out_bundle.err = ""
    /\ Len(LedgerOut.rows) = 2
    /\ LedgerOut.rows[1]["Customer"] = NA
    /\ LedgerOut.rows[1]["Deposit Amount"] = Num(2)
    /\ LedgerOut.rows[2]["Customer"] = Str("Alice")
    /\ Len(CustomerOut.rows) = 2

PaidIffSettled(row) ==
    /\ row["Status"] \in {Str("Paid"), Str("Not Paid")}
    /\ row["Status"] = Str("Paid") <=> row["Outstanding"].n <= 0

\* C2: in the bundle recompute returns, every ledger row and every customer
\* summary row is 'Paid' exactly when its outstanding is <= 0 and 'Not Paid'
\* otherwise, whatever status the input row carried.
C2_StatusConsistent ==
    Returned =>
        /\ \A i \in 1..Len(LedgerOut.rows) : PaidIffSettled(LedgerOut.rows[i])
        /\ \A i \in 1..Len(CustomerOut.rows) : PaidIffSettled(CustomerOut.rows[i])

\* an input row marked Paid with money outstanding comes out Not Paid
C2_Witness ==
    /\ pc = "recomputed"
    /\ out_bundle.err = ""
    /\ \E i \in 1..Len(LedgerOut.rows) :
          /\ "Status" \in DOMAIN out_frames[MAIN_SHEET].rows[i]
          /\ out_frames[MAIN_SHEET].rows[i]["Status"] = Str("Paid")
          /\ LedgerOut.rows[i]["Outstanding"].n > 0
          /\ LedgerOut.rows[i]["Status"] = Str("Not Paid")

\* the customer names that are empty or only white space
BlankNames == {"", "  "}

\* C3: a submission whose customer is empty or only white space is refused:
\* the error is shown and st.session_state.frames (the ledger and the three
\* derived tables) is what it was before the submission.
C3_BlankRejected ==
    [][(form'.submitted /\ form'.customer \in BlankNames) =>
          /\ message' = "Please enter a customer name."
          /\ has_frames' = has_frames
          /\ session_frames' = session_frames]_vars

C3_Witness ==
    /\ form.submitted
    /\ form.customer = "  "
    /\ message = "Please enter a customer name."
    /\ Len(session_frames[MAIN_SHEET].rows) >= 1

IsPrefix(s, t) == Len(s) <= Len(t) /\ \A i \in 1..Len(s) : s[i] = t[i]

\* the uploader holds a file it did not hold before
NewUpload == uploaded'.present /\ uploaded' # uploaded

\* C4: the ledger is append-only between uploads: unless a new file is
\* uploaded, every row of the ledger is still there, unchanged and in place,
\* after any run of the script (the rerun after a submission included).
C4_AppendOnly ==
    [][(has_frames /\ ~NewUpload) => IsPrefix(main_df_now.rows, main_df_now'.rows)]_vars

\* the dashboards' tables (line 253)
re_frames == session_frames

\* C5: the derived tables held in the session and shown on the dashboard are
\* the ones recompute derives from the stored ledger and the current expense
\* and other expense.
C5_ViewsConsistent ==
    has_frames =>
        LET now == RecomputeFromMain(session_frames[MAIN_SHEET], expense.value,
                                     other_expense.value)
        IN now.err = "" =>
              /\ re_frames[CUSTOMER_SHEET] = now.frames[CUSTOMER_SHEET]
              /\ re_frames[PURCHASE_SHEET] = now.frames[PURCHASE_SHEET]
              /\ re_frames[DAILY_SHEET] = now.frames[DAILY_SHEET]

\* the declared columns of each of the four tables
Schema(sheet) ==
    CASE sheet = MAIN_SHEET -> MainCols
      [] sheet = CUSTOMER_SHEET -> CustomerCols
      [] OTHER -> MetricCols

\* C6: import returns all four named tables for any file: a table the file
\* holds is returned as it is, a table it does not hold (or any table of a
\* file that cannot be read) is the empty table with the declared columns,
\* and other tables of the file are left out.
C6_LoadTotal ==
    pc # "input" =>
        /\ DOMAIN out_frames = Range(SheetNames)
        /\ \A sheet \in Range(SheetNames) :
              IF in_file.readable /\ sheet \in DOMAIN in_file.book
              THEN out_frames[sheet] = in_file.book[sheet]
              ELSE out_frames[sheet].rows = <<>> /\ out_frames[sheet].cols = Schema(sheet)

C6_Witness ==
    /\ pc = "loaded"
    /\ in_file.readable
    /\ "Notes" \in DOMAIN in_file.book
    /\ MAIN_SHEET \in DOMAIN in_file.book
    /\ DAILY_SHEET \notin DOMAIN in_file.book
    /\ out_frames[DAILY_SHEET] = Table(MetricCols, <<>>)

\* C7: recompute returns a bundle, and does not raise, for every ledger
\* table, the ones that lack some of the expected columns included.
C7_NeverRaises == Recomputed => out_bundle.err = ""

\* C8: recompute is idempotent: recompute of the ledger it returned, with the
\* same expenses, returns the same four tables.
C8_Idempotent ==
    pc \in {"again", "exported", "imported"} => out_again = out_bundle

\* the first pass changed the ledger (dates, amounts, status), the second does not
C8_Witness ==
    /\ pc = "again"
    /\ Len(LedgerOut.rows) = 2
    /\ LedgerOut # out_frames[MAIN_SHEET]
    /\ \E i \in 1..2 : LedgerOut.rows[i]["Date"] = Date(2)
    /\ \E i \in 1..2 : LedgerOut.rows[i]["Date"] = NA

\* C9: import(export(T)) = T for every bundle T recompute returns: export
\* succeeds, and import reads back the same four tables.
C9_RoundTrip ==
    /\ pc = "exported" => out_bytes.err = ""
    /\ pc = "imported" => out_back = out_bundle.frames

\* the ledger-wide totals, 0 for an empty ledger
TotalOf(col) == IF IsEmpty(LedgerOut) THEN 0 ELSE SumCol(LedgerOut.rows, col)

\* C10: the daily summary's profit is the ledger's sum of Total Amount minus
\* its sum of Amount Paid minus expense minus other expense; its 'Sum of
\* Total Amount' is the purchase summary's total amount; for an empty ledger
\* the three totals are 0.
C10_Profit ==
    Returned =>
        /\ DailyOut.rows[5] = Metric("Profit",
               Num(TotalOf("Total Amount") - TotalOf("Amount Paid") - in_expense - in_other))
        /\ DailyOut.rows[3]["Metric"] = Str("Sum of Total Amount")
        /\ DailyOut.rows[3]["Value"] = PurchaseOut.rows[1]["Value"]
        /\ PurchaseOut.rows[1]["Value"] = Num(TotalOf("Total Amount"))
        /\ PurchaseOut.rows[2]["Value"] = Num(TotalOf("Amount Paid"))
        /\ PurchaseOut.rows[3]["Value"] = Num(TotalOf("Outstanding"))

C10_Witness ==
    /\ pc = "recomputed"
    /\ out_bundle.err = ""
    /\ Len(LedgerOut.rows) = 2
    /\ in_expense = 1
    /\ in_other = 2
    /\ TotalOf("Total Amount") = 3
    /\ TotalOf("Amount Paid") = 3
    /\ DailyOut.rows[5]["Value"] = Num(0 - 3)

====
